---- MODULE Spec2Model ----
(***************************************************************************)
(* FileChangeEventBatchUtil of codewind-filewatchers (TypeScript): the     *)
(* quiet-period batching of file change events.  One aggregator instance,  *)
(* the Node.js timer queue it arms, the owner (FileWatcher) it informs,    *)
(* and a clock.  Handlers run to completion (one JavaScript event-loop     *)
(* turn each), so every handler is one action.                             *)
(*                                                                         *)
(* History variables (calls, runs, disposals, serial) record what the      *)
(* program was asked and what it did; the program never reads them.        *)
(*                                                                         *)
(* ProjectToWatch, the watch descriptor, is modelled in the last part:     *)
(* the objects constructed (projects) and the constructions (attempts).    *)
(***************************************************************************)
EXTENDS Integers, Sequences, FiniteSets

VARIABLES
    _files,      \* this._files: the pending buffer, a sequence of entries
    _timer,      \* this._timer: 0 (undefined) or the handle of a timer
    _disposed,   \* this._disposed
    _projectId,  \* this._projectId, fixed by the constructor
    timers,      \* the runtime's armed timers: a set of [id, due]
    now,         \* the clock, in milliseconds
    informed,    \* the owner's record of informCwctlOfFileChangesAsync calls
    calls,       \* history: every addChangedFiles invocation
    runs,        \* history: every run of the timer callback
    disposals,   \* history: the time of every dispose() invocation
    serial,      \* history: how many entries were ever passed in
    projects,    \* the ProjectToWatch objects constructed so far
    attempts     \* history: every createFromJson and clone invocation

vars == <<_files, _timer, _disposed, _projectId, timers, now, informed,
          calls, runs, disposals, serial, projects, attempts>>

----------------------------------------------------------------------------
(* Program constants and the bounds of the model.                          *)

TIME_TO_WAIT_FOR_NO_NEW_EVENTS_IN_MSECS == 1000

\* The clock advances in steps of half the quiet period, so that calls can
\* be closer together than the quiet period, exactly one apart, or further.
TickMsecs == TIME_TO_WAIT_FOR_NO_NEW_EVENTS_IN_MSECS \div 2

MaxTime == 2500
MaxCalls == 3
MaxDisposals == 2
MaxLen == 3
\* The length of the long file name of the summary inputs.
LongName == 125
\* The length the debug summary may reach before it is cut (lines 177, 182).
SummaryCap == 256

CREATE == "CREATE"
MODIFY == "MODIFY"
DELETE == "DELETE"
EventType == {CREATE, MODIFY, DELETE}

ProjectIds == {"p1", "p2"}

\* What the watch service can pass in: entries before they are given their
\* identity.  The stream sets feed the timed protocol; the batch sets feed
\* one call whose flush is examined.
StreamEntries ==
    [path : {"/a"}, eventType : {CREATE, MODIFY}, timestamp : {5}]

StreamInputs ==
    {<<>>} \cup {<<e>> : e \in StreamEntries}

BatchEntries ==
    [path : {"/a", "/b", "/c"}, eventType : EventType, timestamp : {3, 5}]

BatchInputs ==
    UNION {[1..n -> BatchEntries] : n \in 0..MaxLen}

----------------------------------------------------------------------------
(* Helpers of the model.                                                   *)

\* The entries of one call as objects: each gets an identity, the serial
\* number of its arrival (a JavaScript object is distinct from every other).
Objects(changedFileEntries, base) ==
    [k \in 1..Len(changedFileEntries) |->
        [path |-> changedFileEntries[k].path,
         eventType |-> changedFileEntries[k].eventType,
         timestamp |-> changedFileEntries[k].timestamp,
         id |-> base + k]]

\* Array.prototype.splice(x, 1), on a 1-based sequence.
Splice(entries, x) ==
    [k \in 1..(Len(entries) - 1) |->
        IF k < x THEN entries[k] ELSE entries[k + 1]]

----------------------------------------------------------------------------
(* The runtime's timers.                                                   *)

\* clearTimeout(handle): the timer never runs its callback.
clearTimeout(armed, handle) ==
    {t \in armed : t.id # handle}

\* A runtime that loses the timer it is asked to arm.
setTimeout_lost(armed, handle, delay) ==
    armed

\* setTimeout(callback, delay): a new timer, due delay milliseconds from now.
setTimeout(armed, handle, delay) ==
    armed \cup {[id |-> handle, due |-> now + delay]}

----------------------------------------------------------------------------
(* doTimerTask's pure steps.                                               *)

\* A comparator that orders by timestamp descending.
compare_descending(n1, n2) ==
    IF n1.timestamp > n2.timestamp THEN 0 - 1
    ELSE IF n2.timestamp > n1.timestamp THEN 1
    ELSE 1 - 1

\* The comparator handed to sort (lines 115-127): ascending by timestamp.
compare(n1, n2) ==
    IF n1.timestamp > n2.timestamp THEN 1
    ELSE IF n2.timestamp > n1.timestamp THEN 0 - 1
    ELSE 1 - 1

\* Array.prototype.sort with that comparator.  ECMAScript requires the sort
\* to be stable: an insertion sort that moves an entry only past entries
\* the comparator puts after it.
RECURSIVE Insert(_, _)
Insert(sorted, e) ==
    IF sorted = <<>> THEN <<e>>
    ELSE IF compare(sorted[Len(sorted)], e) > 0
         THEN Append(Insert(SubSeq(sorted, 1, Len(sorted) - 1), e),
                     sorted[Len(sorted)])
         ELSE Append(sorted, e)

RECURSIVE sortFrom(_, _, _)
sortFrom(entries, k, sorted) ==
    IF k > Len(entries) THEN sorted
    ELSE sortFrom(entries, k + 1, Insert(sorted, entries[k]))

sort(entries) ==
    sortFrom(entries, 1, <<>>)

\* The loop without its else branch: an entry of another type does not
\* reset the path.
RECURSIVE removeLoop_neverResets(_, _, _, _)
removeLoop_neverResets(entries, type, x, containsPath) ==
    IF x > Len(entries) THEN entries
    ELSE LET cfe == entries[x]
             path == cfe.path
         IN  IF cfe.eventType = type
             THEN IF path \in containsPath
                  THEN removeLoop_neverResets(Splice(entries, x), type, x,
                                              containsPath)
                  ELSE removeLoop_neverResets(entries, type, x + 1,
                                              containsPath \cup {path})
             ELSE removeLoop_neverResets(entries, type, x + 1, containsPath)

\* The loop with the test of the map inverted: an entry of the type is
\* removed when its path is not in the map, so none of them stays.
RECURSIVE removeLoop_inverted(_, _, _, _)
removeLoop_inverted(entries, type, x, containsPath) ==
    IF x > Len(entries) THEN entries
    ELSE LET cfe == entries[x]
             path == cfe.path
         IN  IF cfe.eventType = type
             THEN IF path \notin containsPath
                  THEN removeLoop_inverted(Splice(entries, x), type, x,
                                           containsPath)
                  ELSE removeLoop_inverted(entries, type, x + 1,
                                           containsPath \cup {path})
             ELSE removeLoop_inverted(entries, type, x + 1,
                                      containsPath \ {path})

\* The loop of removeDuplicateEventsOfType (lines 199-219): x is the
\* (1-based) index, containsPath the keys of the map.  After a splice the
\* index stays where it is (x-- and then x++).
RECURSIVE removeLoop(_, _, _, _)
removeLoop(entries, type, x, containsPath) ==
    IF x > Len(entries) THEN entries
    ELSE LET cfe == entries[x]
             path == cfe.path
         IN  IF cfe.eventType = type
             THEN IF path \in containsPath
                  THEN removeLoop(Splice(entries, x), type, x, containsPath)
                  ELSE removeLoop(entries, type, x + 1,
                                  containsPath \cup {path})
             ELSE removeLoop(entries, type, x + 1, containsPath \ {path})

\* removeDuplicateEventsOfType without its refusal of MODIFY.
removeDuplicateEventsOfType_anyType(entries, type) ==
    removeLoop(entries, type, 1, {})

removeDuplicateEventsOfType(entries, type) ==
    IF type = MODIFY THEN entries
    ELSE removeLoop(entries, type, 1, {})

\* Lines 114-131: sort, then remove duplicate CREATEs, then duplicate DELETEs.
cleanUp(entries) ==
    removeDuplicateEventsOfType(
        removeDuplicateEventsOfType(sort(entries), CREATE), DELETE)

----------------------------------------------------------------------------
(* The handlers.                                                           *)

\* addChangedFiles without the check of this._disposed.
addIgnored_never == FALSE

\* Line 68: addChangedFiles returns at once on a disposed aggregator.
addIgnored == _disposed

\* The entries replace the buffer instead of being pushed onto it.
pushAll_assigns(files, changedFileEntries) ==
    changedFileEntries

\* Lines 70-72: every entry is pushed onto this._files.
pushAll(files, changedFileEntries) ==
    files \o changedFileEntries

\* The timer of the earlier call is left armed.
cancelPending_noop(armed, handle) ==
    armed

\* Lines 74-76: the timer of an earlier call is cleared.
cancelPending(armed, handle) ==
    IF handle # 0 THEN clearTimeout(armed, handle) ELSE armed

\* A timer is set only when none is armed: the first call's timer stays.
rearm_keepsFirst(armed, previous, handle) ==
    IF \E t \in armed : t.id = previous THEN armed
    ELSE setTimeout(armed, handle, TIME_TO_WAIT_FOR_NO_NEW_EVENTS_IN_MSECS)

\* The earlier timer is cleared and none is set.
rearm_onlyClears(armed, previous, handle) ==
    cancelPending(armed, previous)

\* Lines 74-84: the earlier timer is cleared and a new one is set.
rearm(armed, previous, handle) ==
    setTimeout(cancelPending(armed, previous), handle,
               TIME_TO_WAIT_FOR_NO_NEW_EVENTS_IN_MSECS)

addChangedFiles(changedFileEntries) ==
    LET objs == Objects(changedFileEntries, serial)
        handle == Len(calls) + 1
    IN  /\ Len(calls) < MaxCalls
        /\ calls' = Append(calls, [at |-> now, entries |-> objs,
                                   accepted |-> ~addIgnored])
        /\ serial' = serial + Len(objs)
        /\ IF addIgnored
           THEN UNCHANGED <<_files, _timer, timers>>
           ELSE /\ _files' = pushAll(_files, objs)
                /\ timers' = rearm(timers, _timer, handle)
                /\ _timer' = handle
        /\ UNCHANGED <<_disposed, _projectId, now, informed, runs, disposals,
                       projects, attempts>>

dispose ==
    /\ Len(disposals) < MaxDisposals
    /\ disposals' = Append(disposals, now)
    /\ _disposed' = TRUE
    /\ UNCHANGED <<_files, _timer, _projectId, timers, now, informed,
                   calls, runs, serial, projects, attempts>>

\* doTimerTask without the check of this._disposed.
taskIgnored_never == FALSE

\* The check of line 95 inverted.
taskIgnored_inverted == ~_disposed

\* Line 95: doTimerTask returns at once on a disposed aggregator.
taskIgnored == _disposed

\* The buffer keeps what the flush took.
emptied_kept == _files

\* Line 102: this._files = [].
emptied == <<>>

\* Lines 104-108: the timer the handle names is cleared.
clearFired(armed, handle) ==
    IF handle # 0 THEN clearTimeout(armed, handle) ELSE armed

\* Line 110: nothing was taken.
noneTaken(entries) == Len(entries) = 0

\* The check of line 133 inverted.
noneLeft_inverted(entries) == Len(entries) # 0

\* Line 133: nothing is left after the duplicates were removed.
noneLeft(entries) == Len(entries) = 0

----------------------------------------------------------------------------
(* generateChangeListSummaryForDebug (lines 151-189).  A string is the     *)
(* sequence of its characters.                                             *)

Repeat(c, n) == [k \in 1..n |-> c]

\* The characters of the paths the inputs use.
LongPath == "/d/xxx"
LongerPath == "/yyyy"
UNKNOWN == "UNKNOWN"

CharsOf(path) ==
    CASE path = "/" -> <<"/">>
      [] path = "/a" -> <<"/", "a">>
      [] path = "/b" -> <<"/", "b">>
      [] path = "/c" -> <<"/", "c">>
      [] path = "n" -> <<"n">>
      [] path = LongPath -> <<"/", "d", "/">> \o Repeat("x", LongName)
      [] path = LongerPath -> <<"/">> \o Repeat("y", LongName + 1)

\* The marker of an event type (lines 155-163).
marker(eventType) ==
    IF eventType = CREATE THEN "+"
    ELSE IF eventType = MODIFY THEN ">"
    ELSE IF eventType = DELETE THEN "-"
    ELSE "?"

\* String.prototype.lastIndexOf: the zero-based index of the last
\* occurrence, or -1.
lastIndexOf(chars, c) ==
    LET found == {k \in 1..Len(chars) : chars[k] = c}
    IN  IF found = {} THEN -1
        ELSE (CHOOSE k \in found : \A j \in found : j <= k) - 1

\* String.prototype.substring(start): from the zero-based start to the end.
substring(chars, start) == SubSeq(chars, start + 1, Len(chars))

\* The file name shown for a path (lines 165-173).
filenameOf(path) ==
    LET filename == CharsOf(path)
        index == lastIndexOf(filename, "/")
    IN  IF index # -1
        THEN IF Len(substring(filename, index + 1)) = 0
             THEN <<"/">>
             ELSE substring(filename, index + 1)
        ELSE filename

\* The test of lines 177 and 182, read as "at the cap already".
tooLong_atCap(result) == Len(result) >= SummaryCap

\* result.length > 256 (lines 177 and 182).
tooLong(result) == Len(result) > SummaryCap

\* The loop of lines 154-180, from entry k on, with its break.
RECURSIVE summaryLoop(_, _, _)
summaryLoop(entries, k, result) ==
    IF k > Len(entries) THEN result
    ELSE LET added == result \o <<marker(entries[k].eventType)>>
                          \o filenameOf(entries[k].path) \o <<" ">>
         IN  IF tooLong(added) THEN added
             ELSE summaryLoop(entries, k + 1, added)

generateChangeListSummaryForDebug(entries) ==
    LET result == summaryLoop(entries, 1, <<"[", " ">>)
    IN  (IF tooLong(result)
         THEN result \o <<" ", "(", ".", ".", ".", ")", " ">>
         ELSE result) \o <<"]">>

\* Line 144: this._parent.informCwctlOfFileChangesAsync(this._projectId).
informCwctlOfFileChangesAsync(told, projectId) ==
    Append(told, projectId)

\* The callback of the timer t (lines 78-84) and the doTimerTask it runs
\* (lines 94-146).  ownerThrows: the owner's call throws; the callback
\* catches and logs it.
timerTask(t, ownerThrows) ==
    /\ t \in timers
    /\ t.due <= now
    /\ IF taskIgnored
       THEN /\ timers' = timers \ {t}
            /\ runs' = Append(runs,
                   [at |-> now, timer |-> t.id, seen |-> Len(calls),
                    disposed |-> TRUE, taken |-> <<>>, cleaned |-> <<>>,
                    summary |-> <<>>,
                    told |-> FALSE, threw |-> FALSE])
            /\ UNCHANGED <<_files, _timer, informed>>
       ELSE \E entries \in {_files} :
            \E cleaned \in {cleanUp(entries)} :
            \E tells \in {~noneTaken(entries) /\ ~noneLeft(cleaned)} :
            \E eventSummary \in {IF tells
                                 THEN generateChangeListSummaryForDebug(cleaned)
                                 ELSE <<>>} :
                /\ _files' = emptied
                /\ timers' = clearFired(timers \ {t}, _timer)
                /\ _timer' = 0
                /\ informed' = IF tells
                       THEN informCwctlOfFileChangesAsync(informed, _projectId)
                       ELSE informed
                /\ runs' = Append(runs,
                       [at |-> now, timer |-> t.id, seen |-> Len(calls),
                        disposed |-> FALSE, taken |-> entries,
                        cleaned |-> IF noneTaken(entries) THEN <<>> ELSE cleaned,
                        summary |-> eventSummary,
                        told |-> tells, threw |-> tells /\ ownerThrows])
    /\ UNCHANGED <<_disposed, _projectId, now, calls, disposals, serial,
                   projects, attempts>>

\* Time passes, but never past the moment an armed timer is due: the
\* runtime runs a due timer's callback first.
tick ==
    /\ now + TickMsecs <= MaxTime
    /\ \A t \in timers : t.due >= now + TickMsecs
    /\ now' = now + TickMsecs
    /\ UNCHANGED <<_files, _timer, _disposed, _projectId, timers, informed,
                   calls, runs, disposals, serial, projects, attempts>>

----------------------------------------------------------------------------
(* The specifications.                                                     *)

\* The state the constructor leaves (lines 56-61), for some project id.
Init ==
    /\ _files = <<>>
    /\ _timer = 0
    /\ _disposed = FALSE
    /\ _projectId \in ProjectIds
    /\ timers = {}
    /\ now = 0
    /\ informed = <<>>
    /\ calls = <<>>
    /\ runs = <<>>
    /\ disposals = <<>>
    /\ serial = 0
    /\ projects = <<>>
    /\ attempts = <<>>

TimerFires ==
    \E t \in timers : \E ownerThrows \in BOOLEAN : timerTask(t, ownerThrows)

StreamCall ==
    \E input \in StreamInputs : addChangedFiles(input)

BatchCall ==
    /\ calls = <<>>
    /\ \E input \in BatchInputs : addChangedFiles(input)

Next ==
    \/ StreamCall
    \/ dispose
    \/ TimerFires
    \/ tick

\* The timed protocol: calls, disposal, timer expiries and the clock.
Spec == Init /\ [][Next]_vars

\* In the batch specification the clock runs only while a timer is armed.
BatchTick ==
    /\ timers # {}
    /\ tick

NextBatch ==
    \/ BatchCall
    \/ TimerFires
    \/ BatchTick

\* One call with any batch of entries, and the flush that follows it.
SpecBatch == Init /\ [][NextBatch]_vars

----------------------------------------------------------------------------
(* What the history says.                                                  *)

QUIET == TIME_TO_WAIT_FOR_NO_NEW_EVENTS_IN_MSECS

IsAccepted(c) == c.accepted

\* The calls made on the aggregator while it was not disposed, in order.
Accepted == SelectSeq(calls, IsAccepted)

IsFlush(r) == ~r.disposed

\* The runs of doTimerTask that got past the disposed check, in order.
Flushes == SelectSeq(runs, IsFlush)

\* The entries of the calls cs[i..j], in call order.
RECURSIVE EntriesOf(_, _, _)
EntriesOf(cs, i, j) ==
    IF i > j THEN <<>> ELSE cs[i].entries \o EntriesOf(cs, i + 1, j)

\* Everything the flushes fs[i..] took, in flush order.
RECURSIVE TakenFrom(_, _)
TakenFrom(fs, i) ==
    IF i > Len(fs) THEN <<>> ELSE fs[i].taken \o TakenFrom(fs, i + 1)

\* dispose() had not been called by the end of the moment tm.
NotDisposedThrough(tm) ==
    disposals = <<>> \/ disposals[1] > tm

\* The flushes that ran in the interval [from, to].
FlushesWithin(from, to) ==
    {r \in 1..Len(runs) :
        ~runs[r].disposed /\ runs[r].at >= from /\ runs[r].at <= to}

\* acc[i..j] is a burst: each call less than QUIET after the one before,
\* more than QUIET after the call before the burst, and followed by QUIET
\* without a call: the next call came more than QUIET later or, when there
\* is none yet, QUIET has passed and no timer is waiting to run.
IsBurst(acc, i, j) ==
    /\ \A k \in i..(j - 1) : acc[k + 1].at - acc[k].at < QUIET
    /\ i = 1 \/ acc[i].at - acc[i - 1].at > QUIET
    /\ IF j = Len(acc)
       THEN \/ now > acc[j].at + QUIET
            \/ now = acc[j].at + QUIET /\ timers = {}
       ELSE acc[j + 1].at - acc[j].at > QUIET

\* e comes before f in timestamp order, ties in the order of arrival.
Before(e, f) ==
    \/ e.timestamp < f.timestamp
    \/ e.timestamp = f.timestamp /\ e.id < f.id

SeqIds(entries) == {entries[k].id : k \in 1..Len(entries)}

----------------------------------------------------------------------------
(* C1.  Timer reset: for calls on a non-disposed aggregator that each      *)
(* follow the previous one by less than the quiet period, with no call for *)
(* a quiet period after the last, exactly one flush runs, it runs one      *)
(* quiet period after the last call, and it takes exactly the entries of   *)
(* all those calls.                                                        *)
TimerReset ==
    LET acc == Accepted
    IN  \A i \in 1..Len(acc) : \A j \in i..Len(acc) :
            (IsBurst(acc, i, j) /\ NotDisposedThrough(acc[j].at + QUIET)) =>
                LET fl == FlushesWithin(acc[i].at, acc[j].at + QUIET)
                IN  /\ Cardinality(fl) = 1
                    /\ \A r \in fl :
                          /\ runs[r].at = acc[j].at + QUIET
                          /\ runs[r].taken = EntriesOf(acc, i, j)

\* A burst of two calls half a quiet period apart, each with an entry, was
\* flushed once, a quiet period after the second.
TimerResetWitness ==
    /\ Len(calls) >= 2
    /\ calls[1].accepted /\ calls[2].accepted
    /\ calls[1].entries # <<>> /\ calls[2].entries # <<>>
    /\ calls[2].at - calls[1].at = TickMsecs
    /\ Len(runs) = 1
    /\ ~runs[1].disposed
    /\ runs[1].at = calls[2].at + QUIET
    /\ Len(runs[1].taken) = 2
    /\ now > runs[1].at

(* C2.  Independent windows: a call on a non-disposed aggregator that is   *)
(* more than a quiet period away from the calls before and after it gets a *)
(* flush of its own, which takes exactly the entries of that call: no      *)
(* entry of an earlier window, and the earliest entry of each path is kept *)
(* whatever earlier flushes saw.                                           *)
IndependentWindows ==
    LET acc == Accepted
    IN  \A k \in 1..Len(acc) :
            (IsBurst(acc, k, k) /\ NotDisposedThrough(acc[k].at + QUIET)) =>
                LET fl == FlushesWithin(acc[k].at, acc[k].at + QUIET)
                IN  /\ Cardinality(fl) = 1
                    /\ \A r \in fl :
                          /\ runs[r].taken = acc[k].entries
                          /\ \A q \in 1..(r - 1) :
                                SeqIds(runs[q].taken) \cap SeqIds(runs[r].taken) = {}
                          /\ \A e \in SeqIds(runs[r].taken) :
                                LET own == acc[k].entries
                                    x == CHOOSE x \in 1..Len(own) : own[x].id = e
                                IN  (\A y \in 1..Len(own) :
                                        (y # x /\ own[y].path = own[x].path)
                                            => Before(own[x], own[y]))
                                    => e \in SeqIds(runs[r].cleaned)

\* Two calls more than a quiet period apart, each with a CREATE of the same
\* path, and two flushes, each keeping its CREATE.
IndependentWindowsWitness ==
    /\ Len(calls) >= 2
    /\ calls[1].accepted /\ calls[2].accepted
    /\ calls[2].at - calls[1].at > QUIET
    /\ Len(runs) = 2
    /\ ~runs[1].disposed /\ ~runs[2].disposed
    /\ Len(runs[1].cleaned) = 1 /\ Len(runs[2].cleaned) = 1
    /\ runs[1].cleaned[1].eventType = CREATE
    /\ runs[2].cleaned[1].eventType = CREATE
    /\ runs[1].cleaned[1].path = runs[2].cleaned[1].path

(* C3.  Hand-off: while the aggregator is not disposed, the entries taken  *)
(* by the flushes so far followed by the pending buffer are exactly the    *)
(* entries ever passed to addChangedFiles, each once, in call order.       *)
HandOff ==
    ~_disposed =>
        TakenFrom(Flushes, 1) \o _files = EntriesOf(calls, 1, Len(calls))

\* Entries were taken by a flush and later entries wait in a fresh buffer.
HandOffWitness ==
    /\ ~_disposed
    /\ Len(Flushes) >= 1
    /\ Len(TakenFrom(Flushes, 1)) >= 2
    /\ _files # <<>>

(* C4.  No notification after dispose: once dispose() has been called, no  *)
(* step informs the owner; a timer armed before the dispose and firing     *)
(* after it informs nobody.                                                *)
NoNotifyAfterDispose ==
    [][_disposed => informed' = informed]_vars

\* dispose() came between a call with entries and the expiry of the timer
\* that call armed; the timer has fired.
NoNotifyAfterDisposeWitness ==
    /\ Len(runs) = 1
    /\ runs[1].disposed
    /\ _files # <<>>
    /\ calls[1].at < disposals[1]
    /\ disposals[1] < runs[1].at
    /\ informed = <<>>

NoCallAccepted == Accepted = <<>>

(* C5.  Disposed is absorbing: no step resets the disposed flag; a call of *)
(* addChangedFiles or of dispose() on a disposed aggregator leaves the     *)
(* buffer, the timer handle and the armed timers as they are; and as long  *)
(* as no call was made before the dispose, no flush runs.                  *)
DisposedAbsorbing ==
    [][/\ _disposed => _disposed'
       /\ (_disposed /\ Len(calls') > Len(calls)) =>
              UNCHANGED <<_files, _timer, timers, informed>>
       /\ (_disposed /\ Len(disposals') > Len(disposals)) =>
              UNCHANGED <<_files, _timer, timers, informed>>
       /\ NoCallAccepted' =>
              (runs' = <<>> /\ timers' = {} /\ _files' = <<>>)]_vars

\* dispose() twice, then a call with an entry, then more than a quiet
\* period: nothing buffered, nothing armed, nothing run.
DisposedAbsorbingWitness ==
    /\ Len(disposals) = 2
    /\ Len(calls) >= 1
    /\ ~calls[1].accepted
    /\ calls[1].entries # <<>>
    /\ now > calls[1].at + QUIET
    /\ _files = <<>>
    /\ runs = <<>>

\* s[k] repeats the kind of the nearest earlier entry of s on its path.
Repeats(s, k) ==
    \E j \in 1..(k - 1) :
        /\ s[j].path = s[k].path
        /\ s[j].eventType = s[k].eventType
        /\ \A m \in (j + 1)..(k - 1) : s[m].path # s[k].path

\* The reference rule: a CREATE or DELETE that repeats is discarded.
RECURSIVE KeptFrom(_, _)
KeptFrom(s, k) ==
    IF k > Len(s) THEN <<>>
    ELSE (IF s[k].eventType \in {CREATE, DELETE} /\ Repeats(s, k)
          THEN <<>> ELSE <<s[k]>>) \o KeptFrom(s, k + 1)

KindsOf(s) == [k \in 1..Len(s) |-> s[k].eventType]
PathsOf(s) == [k \in 1..Len(s) |-> s[k].path]
StampsOf(s) == [k \in 1..Len(s) |-> s[k].timestamp]
OnePath(s) == \A k \in 1..Len(s) : s[k].path = s[1].path

(* C6.  Duplicate suppression equals the reference rule: what a flush      *)
(* keeps of the sorted buffer is every entry except the CREATEs and        *)
(* DELETEs that repeat the kind of the nearest earlier entry on their      *)
(* path, in sorted order.  So CREATE, CREATE on a path keeps the first,    *)
(* CREATE, DELETE, CREATE and CREATE, MODIFY, CREATE keep all three, and   *)
(* entries on pairwise different paths are all kept.                       *)
DuplicateRule ==
    \A r \in 1..Len(runs) :
        ~runs[r].disposed =>
            LET s == sort(runs[r].taken)
                kept == runs[r].cleaned
            IN  /\ kept = KeptFrom(s, 1)
                /\ (OnePath(s) /\ KindsOf(s) = <<CREATE, CREATE>>)
                       => kept = <<s[1]>>
                /\ (OnePath(s) /\ KindsOf(s) = <<CREATE, DELETE, CREATE>>)
                       => kept = s
                /\ (OnePath(s) /\ KindsOf(s) = <<CREATE, MODIFY, CREATE>>)
                       => kept = s
                /\ Cardinality({s[k].path : k \in 1..Len(s)}) = Len(s)
                       => kept = s

\* A flush took CREATE /a, CREATE /b, CREATE /a and kept the first two:
\* the second CREATE of /a was discarded, the CREATE of /b in between
\* neither discarded nor protecting it.
DuplicateRuleWitness ==
    /\ Len(runs) = 1
    /\ ~runs[1].disposed
    /\ PathsOf(runs[1].taken) = <<"/a", "/b", "/a">>
    /\ KindsOf(runs[1].taken) = <<CREATE, CREATE, CREATE>>
    /\ StampsOf(runs[1].taken) = <<5, 5, 5>>
    /\ runs[1].cleaned = <<runs[1].taken[1], runs[1].taken[2]>>

IsModify(e) == e.eventType = MODIFY

(* C7.  MODIFY entries are never removed: the MODIFY entries a flush       *)
(* keeps are the MODIFY entries it took, each once, and removing the       *)
(* duplicates of kind MODIFY returns the entries as they were.             *)
ModifyKept ==
    \A r \in 1..Len(runs) :
        ~runs[r].disposed =>
            LET took == SelectSeq(runs[r].taken, IsModify)
                kept == SelectSeq(runs[r].cleaned, IsModify)
            IN  /\ SeqIds(kept) = SeqIds(took)
                /\ Len(kept) = Len(took)
                /\ removeDuplicateEventsOfType(sort(runs[r].taken), MODIFY)
                       = sort(runs[r].taken)

\* A flush took three MODIFYs of one path and kept the three.
ModifyKeptWitness ==
    /\ Len(runs) = 1
    /\ ~runs[1].disposed
    /\ OnePath(runs[1].taken)
    /\ KindsOf(runs[1].taken) = <<MODIFY, MODIFY, MODIFY>>
    /\ Len(runs[1].cleaned) = 3

(* C8.  Batch order: the entries a flush keeps are in ascending timestamp  *)
(* order, entries with equal timestamps in the order they were passed in.  *)
(* Entries passed as (pathA, 5), (pathB, 3), (pathC, 5) come out as        *)
(* pathB, pathA, pathC.                                                    *)
BatchOrder ==
    \A r \in 1..Len(runs) :
        ~runs[r].disposed =>
            LET took == runs[r].taken
                kept == runs[r].cleaned
            IN  /\ \A a \in 1..Len(kept) : \A b \in (a + 1)..Len(kept) :
                       Before(kept[a], kept[b])
                /\ (/\ StampsOf(took) = <<5, 3, 5>>
                    /\ PathsOf(took) = <<"/a", "/b", "/c">>)
                       => kept = <<took[2], took[1], took[3]>>

\* The flush of (/a, 5), (/b, 3), (/c, 5) kept /b, /a, /c.
BatchOrderWitness ==
    /\ Len(runs) = 1
    /\ ~runs[1].disposed
    /\ StampsOf(runs[1].taken) = <<5, 3, 5>>
    /\ PathsOf(runs[1].taken) = <<"/a", "/b", "/c">>
    /\ PathsOf(runs[1].cleaned) = <<"/b", "/a", "/c">>

\* The flushes that took a non-empty buffer.
NonEmptyFlushes ==
    {r \in 1..Len(runs) : ~runs[r].disposed /\ runs[r].taken # <<>>}

(* C9.  Exactly-once notification: a timer expiry on a non-disposed        *)
(* aggregator informs the owner once, with the aggregator's project id,    *)
(* when the buffer it takes is non-empty, and not at all when it is empty; *)
(* the owner is never informed more often than non-empty buffers were      *)
(* taken.                                                                  *)
ExactlyOnce ==
    [][/\ (Len(runs') > Len(runs) /\ ~_disposed) =>
              informed' = IF _files # <<>>
                          THEN Append(informed, _projectId)
                          ELSE informed
       /\ Len(informed') <= Cardinality(NonEmptyFlushes')]_vars

\* One flush took an empty buffer (its timer armed by a call without
\* entries), another a non-empty one; the owner was informed once.
ExactlyOnceWitness ==
    /\ Len(runs) = 2
    /\ ~runs[1].disposed /\ ~runs[2].disposed
    /\ runs[1].taken = <<>> /\ runs[2].taken # <<>>
    /\ calls[1].entries = <<>>
    /\ informed = <<_projectId>>

(* C10.  Single timer: at most one timer is armed, it is the one the       *)
(* handle names, and the callback of a timer never runs after a later      *)
(* accepted call (which cleared it).                                       *)
SingleTimer ==
    /\ Cardinality(timers) <= 1
    /\ \A t \in timers : t.id = _timer
    /\ \A r \in 1..Len(runs) :
           \A k \in (runs[r].timer + 1)..runs[r].seen : ~calls[k].accepted

\* The timer of the first call was superseded by the second call's, which
\* ran the flush; the first never ran.
SingleTimerWitness ==
    /\ Len(calls) >= 2
    /\ calls[1].accepted /\ calls[2].accepted
    /\ calls[1].at < calls[2].at
    /\ Len(runs) = 1
    /\ runs[1].timer = 2
    /\ ~runs[1].disposed
    /\ timers = {}

\* The timer the handle names is armed.
TimerArmed == \E t \in timers : t.id = _timer

(* C11.  Flush failure is contained: when the owner's call throws in a     *)
(* flush, the callback catches it; the entries that flush took are neither *)
(* back in the buffer nor in any later flush; and entries passed in by     *)
(* later accepted calls are in the buffer with a timer armed, or were      *)
(* taken by a later flush that informed the owner.                         *)
FailureContained ==
    \A r \in 1..Len(runs) :
        runs[r].threw =>
            /\ SeqIds(runs[r].taken) \cap SeqIds(_files) = {}
            /\ \A q \in (r + 1)..Len(runs) :
                   SeqIds(runs[q].taken) \cap SeqIds(runs[r].taken) = {}
            /\ \A k \in (runs[r].seen + 1)..Len(calls) :
                   calls[k].accepted =>
                       \A e \in SeqIds(calls[k].entries) :
                           \/ e \in SeqIds(_files) /\ (TimerArmed \/ _disposed)
                           \/ \E q \in (r + 1)..Len(runs) :
                                  /\ ~runs[q].disposed
                                  /\ e \in SeqIds(runs[q].taken)
                                  /\ runs[q].told

\* The owner's call threw in the first flush; a later call's entry was
\* flushed and the owner informed without a failure.
FailureContainedWitness ==
    /\ Len(runs) = 2
    /\ runs[1].threw
    /\ ~runs[2].disposed /\ runs[2].taken # <<>>
    /\ runs[2].told /\ ~runs[2].threw
    /\ Len(informed) = 2
    /\ _files = <<>>

\* No buffer, no timer.
Idle == _files = <<>> /\ timers = {} /\ _timer = 0

(* C16.  Return to Idle: right after a timer expiry on a non-disposed      *)
(* aggregator the buffer is empty and no timer is armed, whatever the      *)
(* flush did, and an idle aggregator stays idle until the next call of     *)
(* addChangedFiles.                                                        *)
ReturnToIdle ==
    [][/\ (Len(runs') > Len(runs) /\ ~_disposed) => Idle'
       /\ (Idle /\ Len(calls') = Len(calls)) => Idle']_vars

\* Idle after a flush that failed and a flush that found the buffer empty.
ReturnToIdleWitness ==
    /\ Len(runs) = 2
    /\ runs[1].threw
    /\ ~runs[2].disposed /\ runs[2].taken = <<>>
    /\ ~_disposed
    /\ Idle
    /\ now > runs[2].at

(* C19.  No stranded entries: on a non-disposed aggregator a non-empty     *)
(* buffer always has the timer its handle names armed.                     *)
NoStranded ==
    (~_disposed /\ _files # <<>>) => TimerArmed

\* Entries buffered, and a timer armed, after a flush that failed.
NoStrandedWitness ==
    /\ ~_disposed
    /\ _files # <<>>
    /\ TimerArmed
    /\ Len(runs) = 1
    /\ runs[1].threw

(* C20.  Suppression never empties a batch: a flush that took a non-empty  *)
(* buffer keeps a non-empty batch, which holds the earliest entry of every *)
(* path, and informs the owner.                                            *)
NeverEmptied ==
    \A r \in 1..Len(runs) :
        (~runs[r].disposed /\ runs[r].taken # <<>>) =>
            LET took == runs[r].taken
            IN  /\ runs[r].cleaned # <<>>
                /\ runs[r].told
                /\ informed # <<>>
                /\ \A x \in 1..Len(took) :
                       (\A y \in 1..Len(took) :
                           (y # x /\ took[y].path = took[x].path)
                               => Before(took[x], took[y]))
                           => took[x].id \in SeqIds(runs[r].cleaned)

\* A flush took three DELETEs of one path, kept the first and informed
\* the owner.
NeverEmptiedWitness ==
    /\ Len(runs) = 1
    /\ ~runs[1].disposed
    /\ OnePath(runs[1].taken)
    /\ KindsOf(runs[1].taken) = <<DELETE, DELETE, DELETE>>
    /\ StampsOf(runs[1].taken) = <<5, 5, 5>>
    /\ runs[1].cleaned = <<runs[1].taken[1]>>
    /\ Len(informed) = 1

----------------------------------------------------------------------------
(* The timed protocol with the runtime's guarantees: a due timer's         *)
(* callback is run, and time passes.                                       *)

\* A call early enough for its timer to come due within the model's time.
LiveCall ==
    /\ now + TIME_TO_WAIT_FOR_NO_NEW_EVENTS_IN_MSECS <= MaxTime
    /\ StreamCall

\* One disposal ends what the liveness is about; later ones add nothing.
LiveDispose ==
    /\ disposals = <<>>
    /\ dispose

NextLive ==
    \/ LiveCall
    \/ LiveDispose
    \/ TimerFires
    \/ tick

SpecLive ==
    Init /\ [][NextLive]_vars /\ WF_vars(TimerFires) /\ WF_vars(tick)

\* A flush took the entry with this identity and informed the owner.
Delivered(id) ==
    \E r \in 1..Len(runs) :
        ~runs[r].disposed /\ id \in SeqIds(runs[r].taken) /\ runs[r].told

(* C15.  Eventual flush: unless the aggregator is disposed, once the calls *)
(* have stopped every entry that was ever passed in has been taken by a    *)
(* flush that informed the owner, and stays so; and an armed timer stays   *)
(* armed, with its due time, until it fires or addChangedFiles is called   *)
(* again.                                                                  *)
EventualFlush ==
    /\ <>[](_disposed \/ \A id \in 1..serial : Delivered(id))
    /\ [][(timers # {} /\ Len(calls') = Len(calls) /\ Len(runs') = Len(runs))
              => timers' = timers]_vars

\* The entries of two calls, the second postponing the flush, were taken
\* by one flush that informed the owner; the aggregator was never disposed.
EventualFlushWitness ==
    /\ disposals = <<>>
    /\ Len(calls) = 2
    /\ calls[1].at < calls[2].at
    /\ Delivered(1) /\ Delivered(2)
    /\ Len(runs) = 1
    /\ runs[1].at = calls[2].at + QUIET
    /\ informed = <<_projectId>>

----------------------------------------------------------------------------
(* The debug summary of a flush.                                           *)

\* The entries of the summary inputs: an event on the project root, short
\* names, a path without a separator, an event type outside the
\* enumeration, and two long names.
SummaryEntries ==
    {[path |-> "/", eventType |-> CREATE, timestamp |-> 5],
     [path |-> "/a", eventType |-> MODIFY, timestamp |-> 5],
     [path |-> "n", eventType |-> DELETE, timestamp |-> 3],
     [path |-> "/a", eventType |-> UNKNOWN, timestamp |-> 5],
     [path |-> LongPath, eventType |-> MODIFY, timestamp |-> 5],
     [path |-> LongerPath, eventType |-> MODIFY, timestamp |-> 5]}

SummaryInputs ==
    UNION {[1..n -> SummaryEntries] : n \in 0..MaxLen}

SummaryCall ==
    /\ calls = <<>>
    /\ \E input \in SummaryInputs : addChangedFiles(input)

NextSummary ==
    \/ SummaryCall
    \/ TimerFires
    \/ BatchTick

\* One call with entries whose summary may pass the cap, and its flush.
SpecSummary == Init /\ [][NextSummary]_vars

\* What the summary has to be, said without the loop.
MarkOf(eventType) ==
    CASE eventType = CREATE -> "+"
      [] eventType = MODIFY -> ">"
      [] eventType = DELETE -> "-"
      [] eventType \notin EventType -> "?"

\* The base name: the longest tail of the path without a separator; the
\* whole path when it has none, "/" when the path ends with one.
BaseName(path) ==
    LET chars == CharsOf(path)
        Ending(m) == [k \in 1..m |-> chars[Len(chars) - m + k]]
        n == CHOOSE i \in 0..Len(chars) :
                 /\ \A k \in 1..i : Ending(i)[k] # "/"
                 /\ i < Len(chars) => chars[Len(chars) - i] = "/"
    IN  IF n = 0 THEN <<"/">> ELSE Ending(n)

RECURSIVE Rendered(_, _)
Rendered(entries, k) ==
    IF k = 0 THEN <<"[", " ">>
    ELSE Rendered(entries, k - 1) \o <<MarkOf(entries[k].eventType)>>
             \o BaseName(entries[k].path) \o <<" ">>

\* The number of events shown: the first at which the text exceeds the cap,
\* or all of them.
Shown(entries) ==
    CHOOSE k \in 0..Len(entries) :
        /\ k = Len(entries) \/ Len(Rendered(entries, k)) > SummaryCap
        /\ \A j \in 0..(k - 1) : Len(Rendered(entries, j)) <= SummaryCap

Ellipsis == <<" ", "(", ".", ".", ".", ")", " ">>

\* C18: the summary of a flush renders the cleaned batch in order, a marker
\* and the base file name per event ("/" for the project root); events stop
\* being added once the text exceeds 256 characters, the truncation marker
\* is appended exactly when the text built exceeds 256 characters, and a
\* batch whose text stays within 256 characters is rendered completely
\* without the marker.
SummaryTruncation ==
    \A r \in 1..Len(runs) :
        runs[r].told =>
            LET cleaned == runs[r].cleaned
                built == Rendered(cleaned, Shown(cleaned))
                whole == Rendered(cleaned, Len(cleaned))
            IN  /\ runs[r].summary =
                       built \o (IF Len(built) > SummaryCap
                                 THEN Ellipsis ELSE <<>>) \o <<"]">>
                /\ Len(whole) <= SummaryCap =>
                       runs[r].summary = whole \o <<"]">>

\* Two long names pass the cap, so the event on the root that follows them
\* is not shown and the marker is appended.
SummaryTruncationWitness ==
    /\ Len(runs) = 1
    /\ runs[1].told
    /\ Len(runs[1].cleaned) = 3
    /\ PathsOf(runs[1].cleaned) = <<LongerPath, LongerPath, "/">>
    /\ Shown(runs[1].cleaned) = 2
    /\ Len(runs[1].summary) =
           2 + 2 * (LongName + 3) + Len(Ellipsis) + 1

----------------------------------------------------------------------------
(* ProjectToWatch: the watch descriptor built from the server's JSON.      *)
(* Strings the code inspects are sequences of characters; a value that may *)
(* be undefined is wrapped.                                                *)

\* How many constructions (createFromJson, clone) one behaviour makes.
MaxProjects == 3

undefined == [defined |-> FALSE]
Some(v) == [defined |-> TRUE, value |-> v]

\* !x for a string that may be undefined: undefined and "" are falsy.
falsy(x) == ~x.defined \/ Len(x.value) = 0

LowerLetters ==
    <<"a", "b", "c", "d", "e", "f", "g", "h", "i", "j", "k", "l", "m",
      "n", "o", "p", "q", "r", "s", "t", "u", "v", "w", "x", "y", "z">>
UpperLetters ==
    <<"A", "B", "C", "D", "E", "F", "G", "H", "I", "J", "K", "L", "M",
      "N", "O", "P", "Q", "R", "S", "T", "U", "V", "W", "X", "Y", "Z">>

LetterIndex(letters, c) ==
    IF \E i \in 1..Len(letters) : letters[i] = c
    THEN CHOOSE i \in 1..Len(letters) : letters[i] = c
    ELSE 0

\* String.prototype.toLowerCase, character by character.
toLowerCase(chars) ==
    [k \in 1..Len(chars) |->
        IF LetterIndex(UpperLetters, chars[k]) # 0
        THEN LowerLetters[LetterIndex(UpperLetters, chars[k])]
        ELSE chars[k]]

toUpperCase(chars) ==
    [k \in 1..Len(chars) |->
        IF LetterIndex(LowerLetters, chars[k]) # 0
        THEN UpperLetters[LetterIndex(LowerLetters, chars[k])]
        ELSE chars[k]]

\* String.prototype.indexOf: the zero-based index of the first occurrence,
\* or -1.
indexOf(chars, c) ==
    LET found == {k \in 1..Len(chars) : chars[k] = c}
    IN  IF found = {} THEN -1
        ELSE (CHOOSE k \in found : \A j \in found : k <= j) - 1

startsWith(chars, c) == Len(chars) >= 1 /\ chars[1] = c
endsWith(chars, c) == Len(chars) >= 1 /\ chars[Len(chars)] = c

NON_PROJECT == <<"n", "o", "n", "-", "p", "r", "o", "j", "e", "c", "t">>

\* The wire records (models.IWatchedProjectJson) the server can send.
WirePaths ==
    {undefined,
     Some(<<>>),
     Some(<<"/", "a">>),
     Some(<<"/", "a", "/">>),
     Some(<<"a">>),
     Some(<<"/", "a", "\\", "b">>),
     Some(<<"/", "a", "\\">>),
     Some(<<"/">>),
     Some(<<"/", "c", "/", "x">>),
     Some(<<"/", "C", "/", "x">>)}

WireRecords ==
    [projectID : {undefined, Some(<<>>), Some(<<"p", "1">>)},
     pathToMonitor : WirePaths,
     ignoredPaths : {undefined, Some(<<>>), Some(<<"i1", "i2">>)},
     ignoredFilenames : {undefined, Some(<<"f1">>)},
     projectWatchStateId : {undefined, Some("w1")},
     type : {undefined,
             Some(<<"N", "o", "n", "-", "P", "r", "o", "j", "e", "c", "t">>),
             Some(<<"p", "r", "o", "j", "e", "c", "t">>)},
     projectCreationTime : {undefined, Some(7)},
     refPaths : {undefined, Some(<<[from |-> "r1"], [from |-> "r2"]>>)}]

\* The values clone is given for the creation time.
CreationTimes == {2, 7}

\* PathUtils.normalizeDriveLetter is not among the sources.  After the
\* specification it normalizes the casing of a drive letter in the path and
\* changes nothing else; which casing is left open, so both are results.
HasDriveLetter(chars) ==
    /\ Len(chars) >= 2
    /\ chars[1] = "/"
    /\ LetterIndex(LowerLetters, chars[2]) # 0
           \/ LetterIndex(UpperLetters, chars[2]) # 0
    /\ Len(chars) = 2 \/ chars[3] = "/"

WithDriveLetter(chars, letter) ==
    [k \in 1..Len(chars) |-> IF k = 2 THEN letter ELSE chars[k]]

normalizeDriveLetter(path) ==
    IF path.defined /\ HasDriveLetter(path.value)
    THEN {Some(WithDriveLetter(path.value, toLowerCase(<<path.value[2]>>)[1])),
          Some(WithDriveLetter(path.value, toUpperCase(<<path.value[2]>>)[1]))}
    ELSE {path}

\* new ProjectToWatch(): the field initializers (lines 188-204).
newProjectToWatch ==
    [_projectId |-> undefined,
     _pathToMonitor |-> undefined,
     _ignoredPaths |-> <<>>,
     _ignoredFilenames |-> <<>>,
     _projectWatchStateId |-> undefined,
     _external |-> FALSE,
     _filesToWatch |-> <<>>,
     _projectCreationTimeInAbsoluteMsecs |-> undefined]

\* The strict getters throw on a falsy field (lines 27-45).
pathToMonitorThrows(this) == falsy(this._pathToMonitor)
projectIdThrows(this) == falsy(this._projectId)

optionalPathToMonitor(this) == this._pathToMonitor

\* validatePathToMonitor without its last check.
validatePathToMonitorThrows_noEnd(this) ==
    \/ falsy(this._pathToMonitor)
    \/ indexOf(this._pathToMonitor.value, "\\") # -1
    \/ ~startsWith(this._pathToMonitor.value, "/")

\* validatePathToMonitor (lines 206-226): TRUE when it throws.
validatePathToMonitorThrows(this) ==
    \/ falsy(this._pathToMonitor)
    \/ indexOf(this._pathToMonitor.value, "\\") # -1
    \/ ~startsWith(this._pathToMonitor.value, "/")
    \/ endsWith(this._pathToMonitor.value, "/")
    \/ endsWith(this._pathToMonitor.value, "\\")

\* const copy = []; list.forEach((e) => copy.push(e))
RECURSIVE pushEach(_, _, _)
pushEach(copy, list, k) ==
    IF k > Len(list) THEN copy
    ELSE pushEach(Append(copy, list[k]), list, k + 1)

\* A list field of the wire record, which may be undefined (lines 157-167).
copyOfJsonList(list) ==
    IF list.defined /\ Len(list.value) > 0
    THEN pushEach(<<>>, list.value, 1)
    ELSE <<>>

\* The list of a descriptor (lines 116-126, 131-135).
copyOfList(list) ==
    IF Len(list) > 0 THEN pushEach(<<>>, list, 1) ELSE <<>>

\* refPaths: each entry gives its from (lines 175-179).
fromOfEach(refPaths) ==
    IF refPaths.defined /\ Len(refPaths.value) > 0
    THEN pushEach(<<>>, [k \in 1..Len(refPaths.value) |->
                            refPaths.value[k].from], 1)
    ELSE <<>>

\* A deletion test that never takes the early return.
isDeletion_never(deleteChangeType) == FALSE

\* if (deleteChangeType) (line 144).
isDeletion(deleteChangeType) == deleteChangeType

\* innerCreateFromJson (lines 140-181); normalized is what
\* normalizeDriveLetter returned for json.pathToMonitor.
innerCreateFromJson(result, json, deleteChangeType, normalized) ==
    IF isDeletion(deleteChangeType)
    THEN [threw |-> FALSE,
          result |-> [result EXCEPT !._projectId = json.projectID,
                                    !._pathToMonitor = undefined,
                                    !._projectWatchStateId = undefined]]
    ELSE LET assigned == [result EXCEPT !._projectId = json.projectID,
                                        !._pathToMonitor = normalized]
         IN  IF validatePathToMonitorThrows(assigned)
             THEN [threw |-> TRUE, result |-> assigned]
             ELSE [threw |-> FALSE,
                   result |-> [assigned EXCEPT
                       !._ignoredPaths = copyOfJsonList(json.ignoredPaths),
                       !._ignoredFilenames =
                           copyOfJsonList(json.ignoredFilenames),
                       !._projectWatchStateId = json.projectWatchStateId,
                       !._external =
                           IF ~falsy(json.type)
                           THEN toLowerCase(json.type.value) = NON_PROJECT
                           ELSE FALSE,
                       !._projectCreationTimeInAbsoluteMsecs =
                           json.projectCreationTime,
                       !._filesToWatch = fromOfEach(json.refPaths)]]

\* copyWithNewProjectCreationTime (lines 104-137): old is read through its
\* getters, of which projectId and pathToMonitor throw on a falsy field.
copyWithNewProjectCreationTime(result, old, projectCreationTimeParam) ==
    IF projectIdThrows(old) \/ pathToMonitorThrows(old)
    THEN [threw |-> TRUE, result |-> result]
    ELSE LET assigned == [result EXCEPT
                 !._external = old._external,
                 !._projectId = old._projectId,
                 !._pathToMonitor = old._pathToMonitor,
                 !._projectWatchStateId = old._projectWatchStateId]
         IN  IF validatePathToMonitorThrows(assigned)
             THEN [threw |-> TRUE, result |-> assigned]
             ELSE [threw |-> FALSE,
                   result |-> [assigned EXCEPT
                       !._ignoredPaths = copyOfList(old._ignoredPaths),
                       !._ignoredFilenames = copyOfList(old._ignoredFilenames),
                       !._projectCreationTimeInAbsoluteMsecs =
                           Some(projectCreationTimeParam),
                       !._filesToWatch = copyOfList(old._filesToWatch)]]

\* What a construction leaves: the object joins the heap unless the
\* construction threw, and the invocation is recorded.
Constructed(op, json, deleteChangeType, old, time, out) ==
    /\ projects' = IF out.threw THEN projects
                   ELSE Append(projects, out.result)
    /\ attempts' = Append(attempts,
           [op |-> op, json |-> json, deleteChangeType |-> deleteChangeType,
            old |-> old, time |-> time, threw |-> out.threw,
            before |-> IF old = 0 THEN undefined ELSE projects[old],
            result |-> IF out.threw THEN 0 ELSE Len(projects) + 1])
    /\ UNCHANGED <<_files, _timer, _disposed, _projectId, timers, now,
                   informed, calls, runs, disposals, serial>>

\* createFromJson (lines 76-80).
createFromJson(json, deleteChangeType) ==
    \E normalized \in normalizeDriveLetter(json.pathToMonitor) :
        Constructed("createFromJson", json, deleteChangeType, 0, 0,
            innerCreateFromJson(newProjectToWatch, json, deleteChangeType,
                                normalized))

\* cloneWithNewProjectCreationTime (lines 86-98) of the object at old.
cloneWithNewProjectCreationTime(old, projectCreationTimeParam) ==
    Constructed("clone", undefined, FALSE, old, projectCreationTimeParam,
        copyWithNewProjectCreationTime(newProjectToWatch, projects[old],
                                       projectCreationTimeParam))

CreateCall ==
    /\ attempts = <<>>
    /\ \E json \in WireRecords : \E deleteChangeType \in BOOLEAN :
           createFromJson(json, deleteChangeType)

CloneCall ==
    /\ Len(attempts) < MaxProjects
    /\ \E old \in 1..Len(projects) : \E time \in CreationTimes :
           cloneWithNewProjectCreationTime(old, time)

NextWatch ==
    \/ CreateCall
    \/ CloneCall

\* One descriptor built from a wire record, and clones of what exists.
SpecWatch == Init /\ [][NextWatch]_vars

----------------------------------------------------------------------------
(* What the constructions did.                                             *)

IsFullCreate(a) == a.op = "createFromJson" /\ ~a.deleteChangeType
IsDeletionCreate(a) == a.op = "createFromJson" /\ a.deleteChangeType
IsClone(a) == a.op = "clone"

\* The objects a full construction or a clone produced.
FullDescriptors ==
    {attempts[k].result : k \in {j \in 1..Len(attempts) :
        /\ ~attempts[j].threw
        /\ IsFullCreate(attempts[j]) \/ IsClone(attempts[j])}}

HasBackslash(chars) == \E k \in 1..Len(chars) : chars[k] = "\\"

BadPath(path) ==
    \/ ~path.defined
    \/ path.value = <<>>
    \/ HasBackslash(path.value)
    \/ path.value[1] # "/"
    \/ path.value[Len(path.value)] = "/"

GoodPath(path) ==
    /\ path.defined
    /\ path.value # <<>>
    /\ ~HasBackslash(path.value)
    /\ path.value[1] = "/"
    /\ path.value[Len(path.value)] \notin {"/", "\\"}

\* C12: a full construction whose path to monitor is missing or empty, has
\* a backslash, does not start with "/" or ends with "/" throws and yields
\* no descriptor; every descriptor a full construction or a clone produced
\* has a path that is non-empty, free of backslashes, starts with "/" and
\* does not end with a path separator.
PathValidation ==
    /\ \A k \in 1..Len(attempts) :
           (IsFullCreate(attempts[k])
                /\ BadPath(attempts[k].json.pathToMonitor)) =>
               attempts[k].threw /\ attempts[k].result = 0
    /\ Len(projects) =
           Cardinality({k \in 1..Len(attempts) : ~attempts[k].threw})
    /\ \A d \in FullDescriptors : GoodPath(projects[d]._pathToMonitor)

\* A full construction with the path "/a/" threw and left no object.
PathValidationWitness ==
    /\ Len(attempts) = 1
    /\ IsFullCreate(attempts[1])
    /\ attempts[1].json.pathToMonitor = Some(<<"/", "a", "/">>)
    /\ attempts[1].json.projectID = Some(<<"p", "1">>)
    /\ attempts[1].threw
    /\ projects = <<>>

\* C13: construction with the deletion flag succeeds for every wire record;
\* the descriptor has the record's projectID and nothing else: the path
\* (as the optional accessor returns it) and the watch state id are
\* undefined, no list was copied, nothing else was set.
DeletionNotice ==
    \A k \in 1..Len(attempts) :
        IsDeletionCreate(attempts[k]) =>
            /\ ~attempts[k].threw
            /\ attempts[k].result \in 1..Len(projects)
            /\ LET d == projects[attempts[k].result]
               IN  /\ d._projectId = attempts[k].json.projectID
                   /\ optionalPathToMonitor(d) = undefined
                   /\ d._projectWatchStateId = undefined
                   /\ d._ignoredPaths = <<>>
                   /\ d._ignoredFilenames = <<>>
                   /\ d._filesToWatch = <<>>
                   /\ d._external = FALSE
                   /\ d._projectCreationTimeInAbsoluteMsecs = undefined

\* A deletion notice built from a record whose path would fail validation
\* and whose other fields are all present.
DeletionNoticeWitness ==
    /\ Len(attempts) = 1
    /\ IsDeletionCreate(attempts[1])
    /\ ~attempts[1].threw
    /\ attempts[1].json.pathToMonitor = Some(<<"/", "a", "\\", "b">>)
    /\ attempts[1].json.ignoredPaths = Some(<<"i1", "i2">>)
    /\ attempts[1].json.projectWatchStateId = Some("w1")
    /\ attempts[1].json.refPaths.defined
    /\ attempts[1].json.type.defined
    /\ attempts[1].json.projectCreationTime.defined
    /\ Len(projects) = 1
    /\ projects[1]._projectId = Some(<<"p", "1">>)

\* The clone of d made with the creation time t.
IsCloneOf(c, d, t) ==
    /\ c._projectId = d._projectId
    /\ c._pathToMonitor = d._pathToMonitor
    /\ c._ignoredPaths = d._ignoredPaths
    /\ c._ignoredFilenames = d._ignoredFilenames
    /\ c._projectWatchStateId = d._projectWatchStateId
    /\ c._external = d._external
    /\ c._filesToWatch = d._filesToWatch
    /\ c._projectCreationTimeInAbsoluteMsecs = Some(t)

\* C14: every clone of a full descriptor d with a creation time t yields a
\* descriptor equal to d field by field on projectId, pathToMonitor,
\* ignoredPaths, ignoredFilenames, watchStateId, isExternal and
\* filesToWatch, with creation time t, and d is as it was before.
ClonePreserves ==
    \A k \in 1..Len(attempts) :
        (IsClone(attempts[k]) /\ attempts[k].old \in FullDescriptors) =>
            /\ ~attempts[k].threw
            /\ attempts[k].result \in 1..Len(projects)
            /\ IsCloneOf(projects[attempts[k].result],
                         attempts[k].before, attempts[k].time)
            /\ projects[attempts[k].old] = attempts[k].before

\* The same of the descriptors whose projectId getter does not throw.
ClonePreservesIdentified ==
    \A k \in 1..Len(attempts) :
        (/\ IsClone(attempts[k])
         /\ attempts[k].old \in FullDescriptors
         /\ ~projectIdThrows(attempts[k].before)) =>
            /\ ~attempts[k].threw
            /\ attempts[k].result \in 1..Len(projects)
            /\ IsCloneOf(projects[attempts[k].result],
                         attempts[k].before, attempts[k].time)
            /\ projects[attempts[k].old] = attempts[k].before

\* C17: a full construction from a wire record whose projectID is missing
\* or empty throws, so every full descriptor has a non-empty projectId and
\* its strict projectId getter does not throw.
RequiredProjectId ==
    /\ \A k \in 1..Len(attempts) :
           (IsFullCreate(attempts[k]) /\ falsy(attempts[k].json.projectID))
               => attempts[k].threw
    /\ \A d \in FullDescriptors : ~projectIdThrows(projects[d])

====
